---------------------------- MODULE Spec2Model ----------------------------
(***************************************************************************)
(* A model of mike's MkDocs plugin (src/mike/mkdocs_plugin.py):            *)
(*   - MikePlugin._load_hook   the lru_cache'd loader of hook modules      *)
(*   - MikePlugin.on_config    site URL rewriting, registry construction   *)
(*   - MikePlugin.run_hook     event dispatch                              *)
(*   - MikePlugin.on_files     injection of the theme's selector assets    *)
(*                                                                         *)
(* Strings that the code takes apart are modelled by their parts: a path   *)
(* or URL path is the list str.split('/') gives ("css/" is <<"css", "">>,  *)
(* "" is <<"">>), a member name is its 'on_' prefix and the rest.          *)
(***************************************************************************)
EXTENDS Integers, Sequences, FiniteSets, TLC

(***************************************************************************)
(* Bounds of the model.                                                    *)
(***************************************************************************)
\* longest hooks list of a configuration
MaxHooks == 2
\* most hook files that exist on disk in one run
MaxHookFiles == 2
\* most entries of a user-declared extra_css / extra_javascript list
MaxExtras == 1

(***************************************************************************)
(* Generic helpers on sequences.                                           *)
(***************************************************************************)
Last(s) == s[Len(s)]

Front(s) == SubSeq(s, 1, Len(s) - 1)

RECURSIVE SeqsUpTo(_, _)
\* all sequences over S of length at most n
SeqsUpTo(S, n) ==
    IF n = 0 THEN {<<>>}
    ELSE LET shorter == SeqsUpTo(S, n - 1)
         IN shorter \cup {Append(s, x) : s \in {t \in shorter : Len(t) = n - 1}, x \in S}

Contains(s, x) == \E i \in 1..Len(s) : s[i] = x

\* None for an optional string (a path list): present = FALSE
None == [present |-> FALSE, segs |-> <<>>]

Str(segs) == [present |-> TRUE, segs |-> segs]

\* Python truthiness of an optional string: not None and not ''
Truthy(s) == s.present /\ s.segs # <<"">>


(***************************************************************************)
(* urllib.parse.urljoin (imported at line 5, used at line 69), for a base  *)
(* URL scheme://netloc/path and a reference that is a bare path (a version *)
(* name has no scheme, netloc, query or fragment).                         *)
(***************************************************************************)
\* a URL value: None, '' or scheme://netloc + '/'.join(path)
NoUrl == [present |-> FALSE, scheme |-> "", netloc |-> "", path |-> <<>>]

EmptyUrl == [present |-> TRUE, scheme |-> "", netloc |-> "", path |-> <<"">>]

Url(scheme, netloc, path) ==
    [present |-> TRUE, scheme |-> scheme, netloc |-> netloc, path |-> path]

UrlTruthy(u) == u.present /\ u # EmptyUrl

\* str.startswith('/') on a split string
StartsWithSlash(segs) == Len(segs) >= 2 /\ segs[1] = ""

\* segments[1:-1] = filter(None, segments[1:-1])
FilterMiddle(segments) ==
    IF Len(segments) <= 2 THEN segments
    ELSE <<segments[1]>>
         \o SelectSeq(SubSeq(segments, 2, Len(segments) - 1), LAMBDA x : x # "")
         \o <<Last(segments)>>

RECURSIVE ResolveDots(_, _)
\* the loop of urljoin that removes '.' and '..' segments
ResolveDots(segments, resolved) ==
    IF segments = <<>> THEN resolved
    ELSE LET seg == Head(segments)
         IN ResolveDots(Tail(segments),
                IF seg = ".." THEN (IF resolved = <<>> THEN <<>> ELSE Front(resolved))
                ELSE IF seg = "." THEN resolved
                ELSE Append(resolved, seg))

\* urlunparse: a URL with a netloc gets a '/' before a path that has none
Unparse(scheme, netloc, path) ==
    Url(scheme, netloc,
        IF path # <<"">> /\ ~StartsWithSlash(path) THEN <<"">> \o path ELSE path)

urljoin(base, url) ==
    IF url = <<"">> THEN base
    ELSE LET base_parts == IF Last(base.path) # "" THEN Front(base.path) ELSE base.path
             segments   == IF StartsWithSlash(url) THEN url
                           ELSE FilterMiddle(base_parts \o url)
             resolved   == ResolveDots(segments, <<>>)
             closed     == IF Last(segments) \in {".", ".."}
                           THEN Append(resolved, "") ELSE resolved
             joined     == IF closed = <<>> \/ closed = <<"">>
                           THEN <<"", "">> ELSE closed
         IN Unparse(base.scheme, base.netloc, joined)

(***************************************************************************)
(* posixpath.join and posixpath.normpath (os.path, lines 100-106).         *)
(***************************************************************************)
\* os.path.join(a, b) of two split strings
PathJoin(a, b) ==
    IF StartsWithSlash(b) THEN b
    ELSE IF a = <<"">> \/ Last(a) = "" THEN Front(a) \o b
    ELSE a \o b

RECURSIVE NormComps(_, _, _)
\* the loop of normpath over the components
NormComps(comps, new_comps, initial_slashes) ==
    IF comps = <<>> THEN new_comps
    ELSE LET comp == Head(comps)
         IN NormComps(Tail(comps),
                IF comp \in {"", "."} THEN new_comps
                ELSE IF \/ comp # ".."
                        \/ (initial_slashes = 0 /\ new_comps = <<>>)
                        \/ (new_comps # <<>> /\ Last(new_comps) = "..")
                     THEN Append(new_comps, comp)
                ELSE IF new_comps # <<>> THEN Front(new_comps)
                ELSE new_comps,
                initial_slashes)

normpath(path) ==
    IF path = <<"">> THEN <<".">>
    ELSE LET initial_slashes ==
                 IF ~StartsWithSlash(path) THEN 0
                 ELSE IF Len(path) >= 3 /\ path[2] = "" /\ ~(Len(path) >= 4 /\ path[3] = "")
                      THEN 2 ELSE 1
             comps == NormComps(path, <<>>, initial_slashes)
         IN IF initial_slashes = 0 THEN (IF comps = <<>> THEN <<".">> ELSE comps)
            ELSE IF comps = <<>> THEN [i \in 1..(initial_slashes + 1) |-> ""]
            ELSE [i \in 1..initial_slashes |-> ""] \o comps

(***************************************************************************)
(* The state.                                                              *)
(***************************************************************************)
VARIABLES
    env,          \* the process's surroundings: version token, files on disk, themes
    self_config,  \* MikePlugin.config (config_scheme, lines 28-38)
    config,       \* the build's MkDocs config: site_url, extra_css, extra_javascript
    files,        \* the build's file manifest (mkdocs Files)
    cache,        \* the lru_cache of _load_hook: (self, path) -> module
    top_runs,     \* per hook path, how often its top-level code has run
    events,       \* per plugin instance, self.events
    phase,        \* per plugin instance, its latest on_config: the hooks list, the error
    last          \* the last call: its arguments, what it did and how it ended

vars == <<env, self_config, config, files, cache, top_runs, events, phase, last>>

\* the MikePlugin instances of the process
Plugins == {"p1", "p2"}

(***************************************************************************)
(* Errors.  type "none" is a normal return.                                *)
(***************************************************************************)
Err(type, name, where) == [type |-> type, name |-> name, where |-> where]

NoErr == Err("none", <<>>, <<>>)

(***************************************************************************)
(* Hook files on disk and what importing each gives.                       *)
(***************************************************************************)
Member(prefix, rest, callable) == [prefix |-> prefix, rest |-> rest, callable |-> callable]

\* dir(module), which is sorted by name, without the dunder attributes
Members(path) ==
    CASE path = "a.py"   -> << Member("on_", "data", FALSE),
                               Member("on_", "pre_commit", TRUE),
                               Member("", "setup", TRUE) >>
      [] path = "b.py"   -> << Member("on_", "pre_commit", TRUE) >>
      [] path = "bad.py" -> << Member("on_", "deploy", TRUE),
                               Member("on_", "pre_commit", TRUE),
                               Member("on_", "zeta", TRUE) >>
      [] path = "late.py" -> << Member("", "helper", TRUE),
                                Member("on_", "pre_commit", TRUE),
                                Member("on_", "zeta", TRUE) >>
      [] OTHER           -> << >>

\* importlib.util.spec_from_file_location(name, path): "none" is no spec,
\* "noloader" a spec whose loader is None
SpecOf(path) ==
    CASE path = "notes.txt" -> "none"
      [] path = "bare.py"   -> "noloader"
      [] OTHER              -> "ok"

AllHookFiles == {"a.py", "b.py", "bad.py", "late.py", "notes.txt", "bare.py"}

\* a module object: the path it was built from and which execution built it
Module(path, gen) == [path |-> path, gen |-> gen]

NoModule == Module("", 0)

(***************************************************************************)
(* MikePlugin._load_hook, lines 40-55.                                     *)
(***************************************************************************)
\* the body, lines 41-55: ValidationError is not imported (lines 1-16), so
\* both raise statements end in a NameError
load_hook_body(runs, path) ==
    IF SpecOf(path) = "none"
    THEN [runs |-> runs, module |-> NoModule,
          err |-> Err("NameError", <<"ValidationError">>, <<>>)]
    ELSE IF SpecOf(path) = "noloader"
    THEN [runs |-> runs, module |-> NoModule,
          err |-> Err("NameError", <<"ValidationError">>, <<>>)]
    ELSE [runs   |-> [runs EXCEPT ![path] = @ + 1],
          module |-> Module(path, runs[path] + 1),
          err    |-> NoErr]

\* functools.lru_cache(maxsize=None) on the method, line 40: the key is the
\* argument tuple (self, path); a call that raises is not cached
load_hook(c, runs, self, path) ==
    IF c[<<self, path>>] # NoModule
    THEN [cache |-> c, runs |-> runs, module |-> c[<<self, path>>], err |-> NoErr]
    ELSE LET r == load_hook_body(runs, path)
         IN [cache  |-> IF r.err = NoErr THEN [c EXCEPT ![<<self, path>>] = r.module] ELSE c,
             runs   |-> r.runs,
             module |-> r.module,
             err    |-> r.err]

\* a callable on_* member of the file is not on_pre_commit
HasUnsupported(path) ==
    \E i \in 1..Len(Members(path)) :
        /\ Members(path)[i].callable
        /\ Members(path)[i].prefix = "on_"
        /\ Members(path)[i].rest # "pre_commit"

RECURSIVE LoadAll_lazy(_, _, _, _, _, _)
\* a faulty variant: it loads on demand, as a generator would, so the paths
\* after the module the scan fails on are never loaded
LoadAll_lazy(c, runs, self, paths, modules, ran) ==
    IF paths = <<>>
    THEN [cache |-> c, runs |-> runs, modules |-> modules, ran |-> ran, err |-> NoErr]
    ELSE LET r == load_hook(c, runs, self, Head(paths))
             now == IF r.runs # runs THEN Append(ran, Head(paths)) ELSE ran
         IN IF r.err # NoErr
            THEN [cache |-> r.cache, runs |-> r.runs, modules |-> <<>>, ran |-> now,
                  err |-> r.err]
            ELSE IF HasUnsupported(Head(paths))
            THEN [cache |-> r.cache, runs |-> r.runs,
                  modules |-> Append(modules, r.module), ran |-> now, err |-> NoErr]
            ELSE LoadAll_lazy(r.cache, r.runs, self, Tail(paths),
                              Append(modules, r.module), now)

RECURSIVE LoadAll(_, _, _, _, _, _)
\* modules = [self._load_hook(f) for f in files], line 74; ran lists, in
\* order, the paths whose top-level code these loads executed
LoadAll(c, runs, self, paths, modules, ran) ==
    IF paths = <<>>
    THEN [cache |-> c, runs |-> runs, modules |-> modules, ran |-> ran, err |-> NoErr]
    ELSE LET r == load_hook(c, runs, self, Head(paths))
             now == IF r.runs # runs THEN Append(ran, Head(paths)) ELSE ran
         IN IF r.err # NoErr
            THEN [cache |-> r.cache, runs |-> r.runs, modules |-> <<>>, ran |-> now,
                  err |-> r.err]
            ELSE LoadAll(r.cache, r.runs, self, Tail(paths), Append(modules, r.module), now)

(***************************************************************************)
(* self.events, a defaultdict(list): the keys present and their lists.     *)
(***************************************************************************)
EmptyRegistry == [e \in {} |-> <<>>]

\* self.events[event].append(member)
RegAppend(reg, event, member) ==
    [e \in DOMAIN reg \cup {event} |->
        IF e = event
        THEN (IF e \in DOMAIN reg THEN Append(reg[e], member) ELSE <<member>>)
        ELSE reg[e]]

\* reading self.events[event] of a defaultdict makes the key
RegTouch(reg, event) ==
    [e \in DOMAIN reg \cup {event} |-> IF e \in DOMAIN reg THEN reg[e] ELSE <<>>]

\* a handler: the member of a module object
Handler(m, member) == [module |-> m, prefix |-> member.prefix, rest |-> member.rest]

(***************************************************************************)
(* on_config, lines 75-82: the scan of the loaded modules.                 *)
(***************************************************************************)
\* a faulty variant: it registers every callable on_* member under its own event name
Register_any(reg, m, member) ==
    [events |-> RegAppend(reg, member.rest, Handler(m, member)), err |-> NoErr]

\* lines 79-82
Register(reg, m, member) ==
    IF member.prefix = "on_" /\ member.rest = "pre_commit"
    THEN [events |-> RegAppend(reg, "pre_commit", Handler(m, member)), err |-> NoErr]
    ELSE [events |-> reg,
          err |-> Err("Exception: hook not supported", <<member.prefix, member.rest>>, <<m.path>>)]

RECURSIVE ScanMembers(_, _, _)
\* lines 76-82 for one module
ScanMembers(reg, m, members) ==
    IF members = <<>> THEN [events |-> reg, err |-> NoErr]
    ELSE LET member == Head(members)
         IN IF member.callable /\ member.prefix = "on_"
            THEN LET r == Register(reg, m, member)
                 IN IF r.err # NoErr THEN r
                    ELSE ScanMembers(r.events, m, Tail(members))
            ELSE ScanMembers(reg, m, Tail(members))

RECURSIVE ScanModules(_, _)
\* lines 75-82
ScanModules(reg, modules) ==
    IF modules = <<>> THEN [events |-> reg, err |-> NoErr]
    ELSE LET r == ScanMembers(reg, Head(modules), Members(Head(modules).path))
         IN IF r.err # NoErr THEN r
            ELSE ScanModules(r.events, Tail(modules))

(***************************************************************************)
(* on_config, lines 65-69: the site URL.                                   *)
(***************************************************************************)
\* a faulty variant: the environment's token wins over canonical_version
EffectiveVersion_token(version, canonical) == version

\* lines 67-68
EffectiveVersion(version, canonical) ==
    IF canonical.present THEN canonical ELSE version

\* a faulty variant: it tests the token with 'is not None' instead of its truthiness
SiteUrlAfter_not_none(site_url, version, canonical) ==
    IF version.present /\ UrlTruthy(site_url)
    THEN urljoin(site_url, EffectiveVersion(version, canonical).segs)
    ELSE site_url

\* lines 65-69
SiteUrlAfter(site_url, version, canonical) ==
    IF Truthy(version) /\ UrlTruthy(site_url)
    THEN urljoin(site_url, EffectiveVersion(version, canonical).segs)
    ELSE site_url

(***************************************************************************)
(* MikePlugin.on_config, lines 64-82.                                      *)
(***************************************************************************)
\* a faulty variant: it keeps the registry of the earlier configuration
FreshRegistry_kept(old) == old

\* line 71: self.events = defaultdict(list), whatever self.events was
FreshRegistry(old) == EmptyRegistry

OnConfig(self, hooks) ==
    LET loaded == LoadAll(cache, top_runs, self, hooks, <<>>, <<>>)
        fresh  == FreshRegistry(events[self].reg)
        built  == IF loaded.err # NoErr
                  THEN [events |-> fresh, err |-> loaded.err]
                  ELSE ScanModules(fresh, loaded.modules)
    IN /\ config' = [config EXCEPT !.site_url =
                        SiteUrlAfter(@, env.token, self_config.canonical_version)]
       /\ events' = [events EXCEPT ![self] = [set |-> TRUE, reg |-> built.events]]
       /\ cache' = loaded.cache
       /\ top_runs' = loaded.runs
       /\ phase' = [phase EXCEPT ![self] = [hooks |-> hooks, err |-> built.err]]
       /\ last' = [op |-> "on_config", self |-> self, hooks |-> hooks,
                   loaded |-> (loaded.err = NoErr), modules |-> loaded.modules,
                   ran |-> loaded.ran,
                   err |-> built.err, site_url |-> config.site_url]
       /\ UNCHANGED <<env, self_config, files>>

(***************************************************************************)
(* MikePlugin.run_hook, lines 84-87.  failing is the set of hook files     *)
(* whose handler raises in this dispatch.                                  *)
(***************************************************************************)
Call(func, kwargs) == [func |-> func, kwargs |-> kwargs]

RECURSIVE Invoke(_, _, _, _)
\* lines 86-87: the calls made, and the handler's error if one raised
Invoke(funcs, kwargs, failing, calls) ==
    IF funcs = <<>> THEN [calls |-> calls, err |-> NoErr]
    ELSE LET func == Head(funcs)
         IN IF func.module.path \in failing
            THEN [calls |-> Append(calls, Call(func, kwargs)),
                  err   |-> Err("HandlerError", <<func.prefix, func.rest>>, <<func.module.path>>)]
            ELSE Invoke(Tail(funcs), kwargs, failing, Append(calls, Call(func, kwargs)))

\* a faulty variant: it runs every handler and reports the first failure at the end
Dispatch_isolating(reg, event, kwargs, failing) ==
    IF event \in DOMAIN reg
    THEN LET all  == Invoke(reg[event], kwargs, {}, <<>>)
             real == Invoke(reg[event], kwargs, failing, <<>>)
         IN [reg |-> reg, calls |-> all.calls, err |-> real.err]
    ELSE [reg |-> reg, calls |-> <<>>, err |-> NoErr]

\* a faulty variant: it reads self.events[event] without the membership test
Dispatch_indexing(reg, event, kwargs, failing) ==
    LET r == Invoke(RegTouch(reg, event)[event], kwargs, failing, <<>>)
    IN [reg |-> RegTouch(reg, event), calls |-> r.calls, err |-> r.err]

\* lines 85-87
Dispatch(reg, event, kwargs, failing) ==
    IF event \in DOMAIN reg
    THEN LET r == Invoke(reg[event], kwargs, failing, <<>>)
         IN [reg |-> reg, calls |-> r.calls, err |-> r.err]
    ELSE [reg |-> reg, calls |-> <<>>, err |-> NoErr]

\* event names a caller may dispatch, in and out of the vocabulary
DispatchEvents == {"pre_commit", "deploy"}

\* keyword arguments of a dispatch
Kwargs == {[x |-> 1], [x |-> 2]}

RunHook(self, event, kwargs, failing) ==
    LET r == IF events[self].set
             THEN Dispatch(events[self].reg, event, kwargs, failing)
             ELSE [reg |-> events[self].reg, calls |-> <<>>,
                   err |-> Err("AttributeError", <<"events">>, <<>>)]
    IN /\ events' = [events EXCEPT ![self].reg = r.reg]
       /\ last' = [op |-> "run_hook", self |-> self, event |-> event, kwargs |-> kwargs,
                   failing |-> failing, calls |-> r.calls, err |-> r.err,
                   reg |-> events[self].reg, set |-> events[self].set]
       /\ UNCHANGED <<env, self_config, config, files, cache, top_runs, phase>>

(***************************************************************************)
(* Themes: the 'mike.themes' entry points and the files each ships.        *)
(***************************************************************************)
\* metadata.entry_points(group='mike.themes')
RegisteredThemes == {"mkdocs"}

\* get_theme_dir, lines 19-24
get_theme_dir(theme_name) ==
    IF theme_name \in RegisteredThemes
    THEN [dir |-> <<"", "mike", "themes", theme_name>>, err |-> NoErr]
    ELSE [dir |-> <<>>, err |-> Err("ValueError", <<theme_name>>, <<>>)]

\* os.listdir(srcdir) of a theme's css or js directory
listdir(srcdir) ==
    IF srcdir = <<"", "mike", "themes", "mkdocs", "css">>
    THEN <<"theme.css", "version-select.css">>
    ELSE IF srcdir = <<"", "mike", "themes", "mkdocs", "js">>
    THEN <<"version-select.js">>
    ELSE <<>>

\* config['site_dir']
SiteDir == <<"", "proj", "site">>

\* mkdocs.structure.files.File(path, src_dir, dest_dir, use_directory_urls)
File(path, src_dir, dest_dir, use_directory_urls) ==
    [path |-> path, src_dir |-> src_dir, dest_dir |-> dest_dir,
     use_directory_urls |-> use_directory_urls]

\* the manifest MkDocs collected from the docs directory
DocsFiles == << File(<<"index.md">>, <<"", "proj", "docs">>, SiteDir, TRUE) >>

(***************************************************************************)
(* MikePlugin.on_files, lines 89-113.                                      *)
(***************************************************************************)
\* 'extra_' + prop
ExtraKind(prop) == IF prop = "css" THEN "extra_css" ELSE "extra_javascript"

\* line 106
RelativeDest(cfg_value, f) == PathJoin(cfg_value, <<f>>)

\* line 107
Taken(relative_dest, norm_extras) == Contains(norm_extras, relative_dest)

\* line 104
NormExtras(extras) == [i \in 1..Len(extras) |-> normpath(extras[i])]

RECURSIVE InjectFiles_append_first(_, _, _, _, _, _, _, _)
\* a faulty variant: it appends the descriptor before the test of line 107
InjectFiles_append_first(fs, extras, listing, norm_extras, cfg_value, srcdir, destdir, extra_kind) ==
    IF listing = <<>> THEN [files |-> fs, extras |-> extras, err |-> NoErr]
    ELSE LET f == Head(listing)
             relative_dest == RelativeDest(cfg_value, f)
             appended == Append(fs, File(<<f>>, srcdir, destdir, FALSE))
         IN IF Taken(relative_dest, norm_extras)
            THEN [files |-> appended, extras |-> extras,
                  err |-> Err("PluginError", relative_dest, <<extra_kind>>)]
            ELSE InjectFiles_append_first(appended, Append(extras, relative_dest),
                                          Tail(listing), norm_extras, cfg_value, srcdir,
                                          destdir, extra_kind)

RECURSIVE InjectFiles(_, _, _, _, _, _, _, _)
\* lines 105-112: the loop over one kind's files
InjectFiles(fs, extras, listing, norm_extras, cfg_value, srcdir, destdir, extra_kind) ==
    IF listing = <<>> THEN [files |-> fs, extras |-> extras, err |-> NoErr]
    ELSE LET f == Head(listing)
             relative_dest == RelativeDest(cfg_value, f)
         IN IF Taken(relative_dest, norm_extras)
            THEN [files |-> fs, extras |-> extras,
                  err |-> Err("PluginError", relative_dest, <<extra_kind>>)]
            ELSE InjectFiles(Append(fs, File(<<f>>, srcdir, destdir, FALSE)),
                             Append(extras, relative_dest),
                             Tail(listing), norm_extras, cfg_value, srcdir, destdir,
                             extra_kind)

\* lines 99-112: one turn of the loop over the kinds
InjectKind(fs, cfg, pcfg, theme_dir, path, prop) ==
    LET cfg_value  == IF prop = "css" THEN pcfg.css_dir ELSE pcfg.javascript_dir
        srcdir     == PathJoin(theme_dir, <<path>>)
        destdir    == PathJoin(SiteDir, cfg_value)
        extra_kind == ExtraKind(prop)
        r == InjectFiles(fs, cfg[extra_kind], listdir(srcdir), NormExtras(cfg[extra_kind]),
                         cfg_value, srcdir, destdir, extra_kind)
    IN [files |-> r.files, config |-> [cfg EXCEPT ![extra_kind] = r.extras], err |-> r.err]

\* a faulty variant: it injects although version_selector is off
on_files_ignoring_switch(fs, cfg, pcfg) ==
    LET theme == get_theme_dir(cfg.theme)
    IN IF theme.err # NoErr THEN [files |-> fs, config |-> cfg, err |-> NoErr]
       ELSE InjectKind(fs, cfg, pcfg, theme.dir, "css", "css")

\* a faulty variant: it lets get_theme_dir's ValueError escape
on_files_uncaught(fs, cfg, pcfg) ==
    IF ~pcfg.version_selector THEN [files |-> fs, config |-> cfg, err |-> NoErr]
    ELSE [files |-> fs, config |-> cfg, err |-> get_theme_dir(cfg.theme).err]

\* a faulty variant: it handles the javascript kind before the css kind
on_files_js_first(fs, cfg, pcfg) ==
    IF ~pcfg.version_selector THEN [files |-> fs, config |-> cfg, err |-> NoErr]
    ELSE LET theme == get_theme_dir(cfg.theme)
         IN IF theme.err # NoErr THEN [files |-> fs, config |-> cfg, err |-> NoErr]
            ELSE LET js == InjectKind(fs, cfg, pcfg, theme.dir, "js", "javascript")
                 IN IF js.err # NoErr THEN js
                    ELSE InjectKind(js.files, js.config, pcfg, theme.dir, "css", "css")

\* lines 89-113: the manifest and config after the call, and its error
on_files(fs, cfg, pcfg) ==
    IF ~pcfg.version_selector THEN [files |-> fs, config |-> cfg, err |-> NoErr]
    ELSE LET theme == get_theme_dir(cfg.theme)
         IN IF theme.err # NoErr THEN [files |-> fs, config |-> cfg, err |-> NoErr]
            ELSE LET css == InjectKind(fs, cfg, pcfg, theme.dir, "css", "css")
                 IN IF css.err # NoErr THEN css
                    ELSE InjectKind(css.files, css.config, pcfg, theme.dir,
                                    "js", "javascript")

\* the longest manifest on_files is still called with
MaxManifest == 6

OnFiles ==
    LET r == on_files(files, config, self_config)
    IN /\ Len(files) <= MaxManifest
       /\ files' = r.files
       /\ config' = r.config
       /\ last' = [op |-> "on_files", err |-> r.err, files |-> files,
                   extra_css |-> config.extra_css,
                   extra_javascript |-> config.extra_javascript,
                   returned |-> r.files]
       /\ UNCHANGED <<env, self_config, cache, top_runs, events, phase>>

(***************************************************************************)
(* Initial states.  What surrounds the plugin (the environment variable,   *)
(* the hook files and plugin instances that exist, mkdocs.yml) is chosen   *)
(* once; each specification below explores one part of it widely.          *)
(***************************************************************************)
Docs == Url("https", "example.com", <<"", "docs", "">>)

Defaults == [canonical_version |-> None, version_selector |-> TRUE,
             css_dir |-> <<"css">>, javascript_dir |-> <<"js">>]

NoLast == [op |-> "none", err |-> NoErr]

InitPlugin ==
    /\ files = DocsFiles
    /\ cache = [k \in Plugins \X AllHookFiles |-> NoModule]
    /\ top_runs = [f \in AllHookFiles |-> 0]
    /\ events = [p \in Plugins |-> [set |-> FALSE, reg |-> EmptyRegistry]]
    /\ phase = [p \in Plugins |-> [hooks |-> <<>>, err |-> NoErr]]
    /\ last = NoLast

\* no version selector; any few of the hook files with one plugin instance,
\* any one hook file with two
HookWorlds ==
    {w \in [token : {Str(<<"2.0">>)},
            hook_files : {S \in SUBSET AllHookFiles : Cardinality(S) <= MaxHookFiles},
            plugins : {{"p1"}, Plugins}] :
        w.plugins = {"p1"} \/ Cardinality(w.hook_files) <= 1}

Init ==
    /\ env \in HookWorlds
    /\ self_config = [Defaults EXCEPT !.version_selector = FALSE]
    /\ config = [site_url |-> Docs, theme |-> "mkdocs",
                 extra_css |-> <<>>, extra_javascript |-> <<>>]
    /\ InitPlugin

\* values of the version token in the environment
Tokens == {None, Str(<<"">>), Str(<<"2.0">>), Str(<<"1.0">>), Str(<<"..", "next">>)}

\* values of canonical_version
Canonicals == {None, Str(<<"">>), Str(<<"latest">>)}

\* values of site_url
SiteUrls == {NoUrl, EmptyUrl, Docs,
             Url("https", "example.com", <<"", "docs">>),
             Url("https", "example.com", <<"">>)}

\* every token, canonical_version and site URL
InitUrl ==
    /\ env \in [token : Tokens, hook_files : {{"a.py"}}, plugins : {{"p1"}}]
    /\ self_config \in [canonical_version : Canonicals, version_selector : {TRUE},
                        css_dir : {<<"css">>}, javascript_dir : {<<"js">>}]
    /\ config \in [site_url : SiteUrls, theme : {"mkdocs"},
                   extra_css : {<<>>}, extra_javascript : {<<>>}]
    /\ InitPlugin

\* values of css_dir: 'css', './css', 'css/', ''
CssDirs == {<<"css">>, <<".", "css">>, <<"css", "">>, <<"">>}

\* values of javascript_dir: 'js', './js'
JsDirs == {<<"js">>, <<".", "js">>}

\* what a user lists in extra_css
CssPool == {<<"css", "theme.css">>, <<".", "css", "theme.css">>,
            <<"theme.css">>, <<"custom.css">>, <<"css", "version-select.css">>}

\* what a user lists in extra_javascript
JsPool == {<<"js", "version-select.js">>, <<"js", "", "version-select.js">>}

\* every theme, asset directory and extra-assets list
InitFiles ==
    /\ env = [token |-> None, hook_files |-> {}, plugins |-> {"p1"}]
    /\ self_config \in [canonical_version : {None}, version_selector : BOOLEAN,
                        css_dir : CssDirs, javascript_dir : JsDirs]
    /\ config \in [site_url : {Docs}, theme : {"mkdocs", "material"},
                   extra_css : SeqsUpTo(CssPool, MaxExtras),
                   extra_javascript : SeqsUpTo(JsPool, MaxExtras)]
    /\ InitPlugin

\* hook files whose on_pre_commit can be registered
HandlerFiles == {f \in AllHookFiles :
                    \E i \in 1..Len(Members(f)) :
                        /\ Members(f)[i] = Member("on_", "pre_commit", TRUE)
                        /\ \A j \in 1..(i - 1) :
                              ~(Members(f)[j].callable /\ Members(f)[j].prefix = "on_")}

Next ==
    \/ \E self \in env.plugins, hooks \in SeqsUpTo(env.hook_files, MaxHooks) :
          OnConfig(self, hooks)
    \/ \E self \in env.plugins, event \in DispatchEvents, kwargs \in Kwargs,
          failing \in SUBSET (HandlerFiles \cap env.hook_files) :
          RunHook(self, event, kwargs, failing)
    \/ OnFiles

Spec == Init /\ [][Next]_vars

SpecUrl == InitUrl /\ [][Next]_vars

SpecFiles == InitFiles /\ [][Next]_vars

(***************************************************************************)
(* What the properties below speak of.                                     *)
(***************************************************************************)
\* the callable on_* members of a hook file other than on_pre_commit
Unsupported(path) ==
    {i \in 1..Len(Members(path)) :
        /\ Members(path)[i].callable
        /\ Members(path)[i].prefix = "on_"
        /\ Members(path)[i].rest # "pre_commit"}

\* the hook file exports a callable on_pre_commit
ExportsPreCommit(path) ==
    \E i \in 1..Len(Members(path)) : Members(path)[i] = Member("on_", "pre_commit", TRUE)

\* how many entries of a sequence satisfy a test
Count(s, Test(_)) == Cardinality({i \in 1..Len(s) : Test(s[i])})

\* the handlers registered under an event, <<>> when the key is absent
HandlersOf(reg, event) == IF event \in DOMAIN reg THEN reg[event] ELSE <<>>

\* every handler of a registry
AllHandlers(reg) == UNION {{reg[e][i] : i \in 1..Len(reg[e])} : e \in DOMAIN reg}

(***************************************************************************)
(* C1.  Over any sequence of on_config calls in one process, on any plugin *)
(* instance, the top-level code of each hook path runs at most once, and   *)
(* every load of a path gives the module object of its first load.         *)
(***************************************************************************)
C1_LoadedOncePerProcess ==
    \A f \in AllHookFiles :
        /\ top_runs[f] <= 1
        /\ \A p \in Plugins, q \in Plugins :
              (cache[<<p, f>>] # NoModule /\ cache[<<q, f>>] # NoModule)
                  => cache[<<p, f>>] = cache[<<q, f>>]

(***************************************************************************)
(* C2.  If every configured hook loads and some loaded module exports a    *)
(* callable on_* member other than on_pre_commit, on_config fails with the *)
(* 'hook not supported' error, which names such a member (the first one in *)
(* list order, then dir() order) and its module's file; and no such member *)
(* is ever a registered handler.                                           *)
(***************************************************************************)
C2_UnsupportedHookFails ==
    /\ (/\ last.op = "on_config"
        /\ last.loaded
        /\ \E i \in 1..Len(last.hooks) : Unsupported(last.hooks[i]) # {})
       => /\ last.err.type = "Exception: hook not supported"
          /\ \E i \in 1..Len(last.hooks) :
                LET path == last.hooks[i]
                IN /\ last.err.where = <<path>>
                   /\ \A k \in 1..(i - 1) : Unsupported(last.hooks[k]) = {}
                   /\ \E j \in Unsupported(path) :
                         /\ last.err.name = <<Members(path)[j].prefix, Members(path)[j].rest>>
                         /\ \A k \in Unsupported(path) : j <= k
    /\ \A p \in Plugins : \A h \in AllHandlers(events[p].reg) :
          h.prefix = "on_" /\ h.rest = "pre_commit"

\* a configuration with a module that exports on_deploy has failed
C2_Witness ==
    /\ last.op = "on_config"
    /\ last.loaded
    /\ Contains(last.hooks, "bad.py")
    /\ last.err = Err("Exception: hook not supported", <<"on_", "deploy">>, <<"bad.py">>)

(***************************************************************************)
(* C3.  As claimed: after a successful on_config every hook module that    *)
(* exports on_pre_commit has exactly one handler under 'pre_commit', and a *)
(* run_hook('pre_commit', **kwargs) in which no handler fails calls that   *)
(* handler exactly once with those keyword arguments.                      *)
(***************************************************************************)
C3_ExactlyOneHandler ==
    \A p \in Plugins :
        (events[p].set /\ phase[p].err = NoErr) =>
            \A i \in 1..Len(phase[p].hooks) :
                LET path == phase[p].hooks[i]
                    Mine(h) == h.module.path = path
                    Called(c) == c.func.module.path = path /\ c.kwargs = last.kwargs
                IN ExportsPreCommit(path) =>
                      /\ Count(HandlersOf(events[p].reg, "pre_commit"), Mine) = 1
                      /\ (/\ last.op = "run_hook" /\ last.self = p
                          /\ last.event = "pre_commit" /\ last.err = NoErr)
                         => Count(last.calls, Called) = 1

(***************************************************************************)
(* What the code does about C3 instead: a module that exports              *)
(* on_pre_commit gets one handler for each time its path occurs in the     *)
(* hooks list, and a dispatch in which no handler fails calls the handler  *)
(* once per registration, each time with the dispatch's keyword arguments. *)
(***************************************************************************)
C3_OneHandlerPerListing ==
    \A p \in Plugins :
        (events[p].set /\ phase[p].err = NoErr) =>
            \A i \in 1..Len(phase[p].hooks) :
                LET path == phase[p].hooks[i]
                    Same(f) == f = path
                    Mine(h) == h.module.path = path /\ h.rest = "pre_commit"
                    Called(c) == c.func.module.path = path /\ c.kwargs = last.kwargs
                    listed == Count(phase[p].hooks, Same)
                IN ExportsPreCommit(path) =>
                      /\ Count(HandlersOf(events[p].reg, "pre_commit"), Mine) = listed
                      /\ (/\ last.op = "run_hook" /\ last.self = p
                          /\ last.event = "pre_commit" /\ last.err = NoErr)
                         => /\ Count(last.calls, Called) = listed
                            /\ \A k \in 1..Len(last.calls) :
                                  last.calls[k].kwargs = last.kwargs

\* a dispatch of pre_commit after a configuration that listed a.py twice
C3_ListedTwice ==
    /\ last.op = "run_hook"
    /\ last.event = "pre_commit"
    /\ last.err = NoErr
    /\ phase[last.self].err = NoErr
    /\ phase[last.self].hooks = <<"a.py", "a.py">>
    /\ Len(last.calls) = 2

(***************************************************************************)
(* C4.  run_hook calls the handlers of the event one at a time in          *)
(* registration order, which is the order of the modules in the hooks      *)
(* list; a handler's failure reaches the caller and no handler registered  *)
(* after the failing one is called in that dispatch.                       *)
(***************************************************************************)
C4_OrderedFailFast ==
    /\ last.op = "run_hook" =>
          LET funcs == HandlersOf(last.reg, last.event)
              bad   == {i \in 1..Len(funcs) : funcs[i].module.path \in last.failing}
              stop  == IF bad = {} THEN Len(funcs)
                       ELSE CHOOSE i \in bad : \A k \in bad : i <= k
          IN last.set =>
                /\ last.calls = [i \in 1..stop |-> Call(funcs[i], last.kwargs)]
                /\ (bad = {}) = (last.err = NoErr)
                /\ bad # {} => /\ last.err.type = "HandlerError"
                               /\ last.err.where = <<funcs[stop].module.path>>
    /\ \A p \in Plugins :
          (events[p].set /\ phase[p].err = NoErr) =>
              LET funcs == HandlersOf(events[p].reg, "pre_commit")
              IN [i \in 1..Len(funcs) |-> funcs[i].module.path]
                    = SelectSeq(phase[p].hooks, ExportsPreCommit)

\* a.py's handler ran and failed, so b.py's, registered after it, did not run
C4_Witness ==
    /\ last.op = "run_hook"
    /\ last.event = "pre_commit"
    /\ phase[last.self].hooks = <<"a.py", "b.py">>
    /\ Len(last.reg["pre_commit"]) = 2
    /\ last.failing = {"a.py"}
    /\ Len(last.calls) = 1
    /\ last.err.type = "HandlerError"

(***************************************************************************)
(* C5.  After a configuration phase, run_hook for an event name that has   *)
(* no registered handlers (a name outside the vocabulary included) calls   *)
(* no handler, raises nothing and leaves the registry as it was.           *)
(***************************************************************************)
C5_NoHandlersNoOp ==
    (/\ last.op = "run_hook"
     /\ last.set
     /\ HandlersOf(last.reg, last.event) = <<>>)
    => /\ last.calls = <<>>
       /\ last.err = NoErr
       /\ events[last.self].reg = last.reg
       /\ DOMAIN events[last.self].reg = DOMAIN last.reg

\* 'deploy' was dispatched on a plugin whose registry holds a pre_commit handler
C5_Witness ==
    /\ last.op = "run_hook"
    /\ last.set
    /\ last.event = "deploy"
    /\ "pre_commit" \in DOMAIN last.reg
    /\ last.failing # {}

(***************************************************************************)
(* C6.  With a version token supplied and a site URL set, on_config sets   *)
(* the site URL to urljoin(old site URL, effective version), the effective *)
(* version being canonical_version when it is configured and the token     *)
(* otherwise; so with canonical_version configured the result does not     *)
(* depend on the token.  https://example.com/docs/ and token 2.0 give      *)
(* https://example.com/docs/2.0.                                           *)
(***************************************************************************)
C6_SiteUrlJoined ==
    (/\ last.op = "on_config"
     /\ Truthy(env.token)
     /\ UrlTruthy(last.site_url))
    => LET canonical == self_config.canonical_version
       IN /\ canonical.present =>
                config.site_url = urljoin(last.site_url, canonical.segs)
          /\ ~canonical.present =>
                config.site_url = urljoin(last.site_url, env.token.segs)
          /\ (last.site_url = Docs /\ ~canonical.present /\ env.token = Str(<<"2.0">>))
                => config.site_url = Url("https", "example.com", <<"", "docs", "2.0">>)
          /\ (last.site_url = Docs /\ canonical = Str(<<"latest">>))
                => config.site_url = Url("https", "example.com", <<"", "docs", "latest">>)

\* token 2.0 was supplied and canonical_version 'latest' decided the site URL
C6_Witness ==
    /\ last.op = "on_config"
    /\ env.token = Str(<<"2.0">>)
    /\ self_config.canonical_version = Str(<<"latest">>)
    /\ last.site_url = Docs
    /\ config.site_url = Url("https", "example.com", <<"", "docs", "latest">>)

(***************************************************************************)
(* C7.  If the version token is absent or empty, or the build has no site  *)
(* URL, on_config leaves the site URL as it was, whatever                  *)
(* canonical_version is.                                                   *)
(***************************************************************************)
C7_SiteUrlUntouched ==
    (/\ last.op = "on_config"
     /\ (~Truthy(env.token) \/ ~UrlTruthy(last.site_url)))
    => config.site_url = last.site_url

\* the token is the empty string while canonical_version and site_url are set
C7_Witness ==
    /\ last.op = "on_config"
    /\ env.token = Str(<<"">>)
    /\ self_config.canonical_version = Str(<<"latest">>)
    /\ last.site_url = Docs
    /\ config.site_url = Docs

(***************************************************************************)
(* C8.  With version_selector on and a supported theme: whenever a file    *)
(* the theme ships for a kind has a destination (the configured directory  *)
(* name joined with the file name) that denotes the same path as an entry  *)
(* the kind's extra-assets list held before the call, on_files fails with  *)
(* the duplicate-asset error, which names such a path and the extra_*      *)
(* option, for every value of css_dir and javascript_dir.                  *)
(***************************************************************************)
\* the files of a kind whose destination is already in the list extras
Colliding(path, cfg_value, extras) ==
    LET listing == listdir(PathJoin(get_theme_dir(config.theme).dir, <<path>>))
    IN {i \in 1..Len(listing) :
           \E k \in 1..Len(extras) :
               normpath(extras[k]) = normpath(PathJoin(cfg_value, <<listing[i]>>))}

C8_DuplicateAssetFails ==
    (/\ last.op = "on_files"
     /\ self_config.version_selector
     /\ config.theme \in RegisteredThemes
     /\ \/ Colliding("css", self_config.css_dir, last.extra_css) # {}
        \/ Colliding("js", self_config.javascript_dir, last.extra_javascript) # {})
    => /\ last.err.type = "PluginError"
       /\ \/ /\ last.err.where = <<"extra_css">>
             /\ \E k \in 1..Len(last.extra_css) :
                   normpath(last.extra_css[k]) = normpath(last.err.name)
          \/ /\ last.err.where = <<"extra_javascript">>
             /\ \E k \in 1..Len(last.extra_javascript) :
                   normpath(last.extra_javascript[k]) = normpath(last.err.name)

(***************************************************************************)
(* C9.  With version_selector off, on_files returns the manifest it was    *)
(* given, nothing added, removed or reordered, and leaves both             *)
(* extra-assets lists as they were, for every theme and every content of   *)
(* the lists.                                                              *)
(***************************************************************************)
C9_DisabledIsNoOp ==
    (last.op = "on_files" /\ ~self_config.version_selector)
    => /\ last.err = NoErr
       /\ last.returned = last.files
       /\ files = last.files
       /\ config.extra_css = last.extra_css
       /\ config.extra_javascript = last.extra_javascript

\* off, with a supported theme and an extra_css entry the theme's file would hit
C9_Witness ==
    /\ last.op = "on_files"
    /\ ~self_config.version_selector
    /\ config.theme \in RegisteredThemes
    /\ Colliding("css", self_config.css_dir, last.extra_css) # {}
    /\ files = DocsFiles

(***************************************************************************)
(* C10.  When the theme is not registered with the theme lookup, on_files  *)
(* does not fail, returns the manifest unchanged and leaves both           *)
(* extra-assets lists unchanged.                                           *)
(***************************************************************************)
C10_UnsupportedThemeIsNoOp ==
    (last.op = "on_files" /\ config.theme \notin RegisteredThemes)
    => /\ last.err = NoErr
       /\ last.returned = last.files
       /\ files = last.files
       /\ config.extra_css = last.extra_css
       /\ config.extra_javascript = last.extra_javascript

\* version_selector on, theme 'material' not registered, extra lists not empty
C10_Witness ==
    /\ last.op = "on_files"
    /\ self_config.version_selector
    /\ config.theme = "material"
    /\ config.extra_css # <<>>
    /\ files = DocsFiles

(***************************************************************************)
(* C11.  Every configuration phase replaces the registry: after any        *)
(* sequence of on_config calls the handlers a plugin holds are exactly     *)
(* those discovered from the hooks list of its most recent on_config (all  *)
(* of them when it succeeded, none when a hook did not load, those found   *)
(* before the unsupported member when it failed on one), and none is       *)
(* carried over from an earlier phase.                                     *)
(***************************************************************************)
\* the hook files whose handler the scan of a hooks list registers, in order
Discovered(hooks) ==
    LET stops == {i \in 1..Len(hooks) : Unsupported(hooks[i]) # {}}
        stop  == IF stops = {} THEN Len(hooks) + 1
                 ELSE CHOOSE i \in stops : \A k \in stops : i <= k
    IN IF \E i \in 1..Len(hooks) : SpecOf(hooks[i]) # "ok" THEN <<>>
       ELSE SelectSeq(SubSeq(hooks, 1, stop - 1), ExportsPreCommit)
            \o (IF stop <= Len(hooks) /\ hooks[stop] \in HandlerFiles
                THEN <<hooks[stop]>> ELSE <<>>)

C11_RegistryReplaced ==
    \A p \in Plugins :
        events[p].set =>
            LET funcs == HandlersOf(events[p].reg, "pre_commit")
            IN /\ [i \in 1..Len(funcs) |-> funcs[i].module.path] = Discovered(phase[p].hooks)
               /\ \A h \in AllHandlers(events[p].reg) :
                     /\ Contains(phase[p].hooks, h.module.path)
                     /\ h.module = cache[<<p, h.module.path>>]
               /\ AllHandlers(events[p].reg) = {funcs[i] : i \in 1..Len(funcs)}

\* a plugin that once loaded a.py was configured again with b.py alone
C11_Witness ==
    /\ last.op = "on_config"
    /\ last.hooks = <<"b.py">>
    /\ cache[<<last.self, "a.py">>] # NoModule
    /\ Len(HandlersOf(events[last.self].reg, "pre_commit")) = 1

(***************************************************************************)
(* C12.  Loading a hook path that does not resolve to an executable module *)
(* (no module spec, or a spec without a loader) fails with the module-load *)
(* error, which names the path, and the failure aborts the configuration   *)
(* phase.                                                                  *)
(***************************************************************************)
C12_LoadErrorNamesPath ==
    (/\ last.op = "on_config"
     /\ \E i \in 1..Len(last.hooks) : SpecOf(last.hooks[i]) # "ok")
    => LET broken == {i \in 1..Len(last.hooks) : SpecOf(last.hooks[i]) # "ok"}
           first  == CHOOSE i \in broken : \A k \in broken : i <= k
       IN /\ ~last.loaded
          /\ last.err.type = "ValidationError"
          /\ last.err.where = <<last.hooks[first]>>
          /\ events[last.self].reg = EmptyRegistry

(***************************************************************************)
(* C13.  Destinations stay unique over any sequence of on_files calls on   *)
(* one build configuration, for every css_dir and javascript_dir: within a *)
(* kind, the normalized destination of an injected asset is held by no     *)
(* other entry of the kind's extra-assets list, user-declared or injected; *)
(* and a call that finds assets injected by an earlier call fails with the *)
(* duplicate-asset error instead of injecting them again.                  *)
(***************************************************************************)
\* the descriptors on_files has added to the manifest
Injected(fs) == SubSeq(fs, Len(DocsFiles) + 1, Len(fs))

\* the normalized relative destination of an injected descriptor
DestOf(d) ==
    normpath(PathJoin(IF Last(d.src_dir) = "css" THEN self_config.css_dir
                      ELSE self_config.javascript_dir,
                      d.path))

\* the extra-assets list of an injected descriptor's kind
ExtrasOf(d) ==
    IF Last(d.src_dir) = "css" THEN config.extra_css ELSE config.extra_javascript

C13_DestinationsUnique ==
    /\ \A i \in 1..Len(Injected(files)) :
          LET d == Injected(files)[i]
              Same(e) == normpath(e) = DestOf(d)
          IN Count(ExtrasOf(d), Same) = 1
    /\ (/\ last.op = "on_files"
        /\ Len(last.files) > Len(DocsFiles)
        /\ self_config.version_selector
        /\ config.theme \in RegisteredThemes)
       => last.err.type = "PluginError"

(***************************************************************************)
(* What an injection adds, written out for the properties below.           *)
(***************************************************************************)
\* the files the active theme ships in its css or js directory
Shipped(path) == listdir(get_theme_dir(config.theme).dir \o <<path>>)

\* the descriptors of the first n files of a kind
Descriptors(path, cfg_value, n) ==
    [i \in 1..n |-> File(<<Shipped(path)[i]>>,
                         get_theme_dir(config.theme).dir \o <<path>>,
                         PathJoin(SiteDir, cfg_value), FALSE)]

\* the relative destinations of the first n files of a kind, as joined
Destinations(path, cfg_value, n) ==
    [i \in 1..n |-> PathJoin(cfg_value, <<Shipped(path)[i]>>)]

\* how many files of a kind precede the one whose destination is dest
Before(path, cfg_value, dest) ==
    (CHOOSE i \in 1..Len(Shipped(path)) : PathJoin(cfg_value, <<Shipped(path)[i]>>) = dest) - 1

(***************************************************************************)
(* C14.  As claimed: when on_files fails with the duplicate-asset error,   *)
(* nothing has been injected: the manifest and both extra-assets lists     *)
(* equal their values before the call.                                     *)
(***************************************************************************)
C14_FailureInjectsNothing ==
    (last.op = "on_files" /\ last.err.type = "PluginError")
    => /\ files = last.files
       /\ config.extra_css = last.extra_css
       /\ config.extra_javascript = last.extra_javascript

(***************************************************************************)
(* C14, amended.  When on_files fails with the duplicate-asset error, the  *)
(* assets that come before the colliding file have been injected and stay  *)
(* injected (the earlier files of the colliding kind, and every css file   *)
(* when the collision is in javascript): the manifest and the extra-assets *)
(* lists are their values before the call followed by exactly those        *)
(* entries, and the colliding file and the files after it are not added.   *)
(***************************************************************************)
C14_FailureKeepsEarlierInjections ==
    (last.op = "on_files" /\ last.err.type = "PluginError")
    => LET css_dir == self_config.css_dir
           js_dir  == self_config.javascript_dir
           in_css  == last.err.where = <<"extra_css">>
           n_css   == IF in_css THEN Before("css", css_dir, last.err.name)
                      ELSE Len(Shipped("css"))
           n_js    == IF in_css THEN 0 ELSE Before("js", js_dir, last.err.name)
       IN /\ last.err.where \in {<<"extra_css">>, <<"extra_javascript">>}
          /\ files = last.files \o Descriptors("css", css_dir, n_css)
                                \o Descriptors("js", js_dir, n_js)
          /\ config.extra_css = last.extra_css \o Destinations("css", css_dir, n_css)
          /\ config.extra_javascript =
                last.extra_javascript \o Destinations("js", js_dir, n_js)

\* the javascript file collided after both css files had been injected
C14_Witness ==
    /\ last.op = "on_files"
    /\ last.err = Err("PluginError", <<"js", "version-select.js">>, <<"extra_javascript">>)
    /\ Len(files) = Len(last.files) + 2
    /\ Len(config.extra_css) = Len(last.extra_css) + 2
    /\ config.extra_javascript = last.extra_javascript

(***************************************************************************)
(* C15.  A successful on_files with version_selector on and a supported    *)
(* theme only appends: the returned manifest is the given one followed by  *)
(* one descriptor per theme file, all css files and then all javascript    *)
(* files, and each kind's extra-assets list is its earlier content         *)
(* followed by the relative destinations of that kind's files; no earlier  *)
(* entry is removed or reordered.                                          *)
(***************************************************************************)
C15_SuccessOnlyAppends ==
    (/\ last.op = "on_files"
     /\ last.err = NoErr
     /\ self_config.version_selector
     /\ config.theme \in RegisteredThemes)
    => LET css_dir == self_config.css_dir
           js_dir  == self_config.javascript_dir
       IN /\ last.returned = last.files
                \o Descriptors("css", css_dir, Len(Shipped("css")))
                \o Descriptors("js", js_dir, Len(Shipped("js")))
          /\ files = last.returned
          /\ config.extra_css =
                last.extra_css \o Destinations("css", css_dir, Len(Shipped("css")))
          /\ config.extra_javascript =
                last.extra_javascript \o Destinations("js", js_dir, Len(Shipped("js")))

\* three assets were appended after the docs file and a user's extra_css entry
C15_Witness ==
    /\ last.op = "on_files"
    /\ last.err = NoErr
    /\ self_config.version_selector
    /\ last.extra_css = <<<<"custom.css">>>>
    /\ Len(files) = Len(DocsFiles) + 3
    /\ config.extra_css = <<<<"custom.css">>, <<"css", "theme.css">>,
                            <<"css", "version-select.css">>>>

(***************************************************************************)
(* C16.  In every state after a plugin's first on_config, a failed         *)
(* on_config and run_hook calls with any event name included, the only     *)
(* event name that is a key of its registry is pre_commit.                 *)
(***************************************************************************)
C16_OnlyPreCommitKey ==
    \A p \in Plugins :
        events[p].set => DOMAIN events[p].reg \subseteq {"pre_commit"}

\* 'deploy' was dispatched after an on_config that failed on an unsupported
\* member with a handler already registered
C16_Witness ==
    /\ last.op = "run_hook"
    /\ last.event = "deploy"
    /\ phase[last.self].err.type = "Exception: hook not supported"
    /\ DOMAIN events[last.self].reg = {"pre_commit"}

(***************************************************************************)
(* C17.  Within one on_config the site URL is rewritten before any hook is *)
(* loaded, and every configured hook path is loaded, in hooks-list order,  *)
(* before any module's members are inspected.  So an on_config that fails  *)
(* on an unsupported hook name has loaded all the configured modules and   *)
(* has rewritten the site URL; one that fails on a load has rewritten the  *)
(* site URL and has run no top-level code of a path listed after the one   *)
(* that failed.                                                            *)
(***************************************************************************)
\* the place of a path's first listing in a hooks list
FirstAt(hooks, path) == CHOOSE i \in 1..Len(hooks) : hooks[i] = path /\ \A k \in 1..(i - 1) : hooks[k] # path

C17_LoadsBeforeScan ==
    last.op = "on_config" =>
        LET hooks  == last.hooks
            broken == {i \in 1..Len(hooks) : SpecOf(hooks[i]) # "ok"}
            canonical == self_config.canonical_version
        IN /\ config.site_url =
                 IF Truthy(env.token) /\ UrlTruthy(last.site_url)
                 THEN urljoin(last.site_url,
                              IF canonical.present THEN canonical.segs ELSE env.token.segs)
                 ELSE last.site_url
           /\ \A j \in 1..Len(last.ran) :
                 /\ Contains(hooks, last.ran[j])
                 /\ \A k \in 1..(j - 1) :
                       FirstAt(hooks, last.ran[k]) < FirstAt(hooks, last.ran[j])
                 /\ \A i \in broken : FirstAt(hooks, last.ran[j]) < i
           /\ last.err.type = "Exception: hook not supported" =>
                 /\ Len(last.modules) = Len(hooks)
                 /\ \A i \in 1..Len(hooks) :
                       /\ cache[<<last.self, hooks[i]>>] # NoModule
                       /\ last.modules[i] = cache[<<last.self, hooks[i]>>]
                       /\ top_runs[hooks[i]] >= 1

\* bad.py, listed first, made on_config fail after a.py, listed second, had
\* been loaded and the site URL rewritten
C17_Witness ==
    /\ last.op = "on_config"
    /\ last.hooks = <<"bad.py", "a.py">>
    /\ last.ran = <<"bad.py", "a.py">>
    /\ last.err = Err("Exception: hook not supported", <<"on_", "deploy">>, <<"bad.py">>)
    /\ last.site_url = Docs
    /\ config.site_url = Url("https", "example.com", <<"", "docs", "2.0">>)

=============================================================================
